---- MODULE Spec2Model ----
(***************************************************************************)
(* The analysis flow controller of the plant-diagnosis application: the    *)
(* App component of src/unnamed/part_000 (multi-image version).  The React *)
(* state (lang, isProcessing, images, data), the file picker, the pending  *)
(* FileReader reads of every submission and the pending generateContent    *)
(* calls are the state; every event-loop task that runs application code   *)
(* is one action.  lastOp is a history variable naming the last handler    *)
(* that ran; it is recorded only in the behaviours of SpecOps.              *)
(***************************************************************************)
EXTENDS Integers, Sequences, FiniteSets, TLC

VARIABLES lang, isProcessing, images, data, pickerOpen, subs, alerts, recording, lastOp

vars == <<lang, isProcessing, images, data, pickerOpen, subs, alerts, recording, lastOp>>

(***************************************************************************)
(* Bounds.                                                                 *)
(***************************************************************************)
\* The number of non-empty submissions, and the number of file reads they
\* start in total.
MaxSubmissions == 2
MaxReads == 3

(***************************************************************************)
(* JavaScript values.  Every value is a tagged record so that null, a      *)
(* string, an array and a parsed object can be held by one variable.       *)
(* A string is a sequence of tokens (the characters the code splits on are *)
(* tokens of their own).                                                   *)
(***************************************************************************)
Null == [t |-> "null"]
Pending == [t |-> "pending"]
Str(tokens) == [t |-> "string", s |-> tokens]
Arr(items) == [t |-> "array", items |-> items]

Lang == {"zh", "en"}

translations ==
  [en |-> [error |-> "Could not analyze the images. Please try clear photos of a plant."],
   zh |-> [error |-> "zh: error"]]

\* The k-th file of a selection (accept="image/*"): the files of a selection
\* are distinct, told apart by their content.
File(k) == [type |-> IF k % 2 = 1 THEN "image/png" ELSE "image/jpeg", content |-> ToString(k)]

\* e.target.files of a change event: zero or more files.
Selections == { [k \in 1..n |-> File(k)] : n \in 0..MaxReads }

\* FileReader.readAsDataURL: "data:<type>;base64,<content>".
DataURL(file) == <<"data", ":", file.type, ";", "base64", ",", file.content>>

\* String.prototype.split(sep) on a token string: the pieces between the
\* occurrences of sep, in order.
RECURSIVE SplitFrom(_, _, _, _)
SplitFrom(s, sep, i, cur) ==
  IF i > Len(s) THEN << cur >>
  ELSE IF s[i] = sep THEN << cur >> \o SplitFrom(s, sep, i + 1, <<>>)
  ELSE SplitFrom(s, sep, i + 1, Append(cur, s[i]))

Split(s, sep) == SplitFrom(s, sep, 1, <<>>)

\* arr[k] of JavaScript (0-based); undefined is the empty token string here.
At(pieces, k) == IF k + 1 <= Len(pieces) THEN pieces[k + 1] ELSE <<>>

(***************************************************************************)
(* The response of the external service and JSON.parse.  A response either *)
(* rejects (network, quota, ...) or resolves with a text.                  *)
(***************************************************************************)
care == [light |-> "Bright indirect", water |-> "Weekly", soil |-> "Loose", temp |-> "18-27C"]

HealthyPlant ==
  [t |-> "object", name |-> "Monstera", scientificName |-> "Monstera deliciosa",
   healthStatus |-> "Healthy", riskLevel |-> "Low", symptoms |-> <<>>, causes |-> <<>>,
   urgency |-> "Low", care |-> care, diagnosisSteps |-> <<"Keep the current routine">>,
   treatmentIngredients |-> <<>>, funFact |-> "Its leaves split with age"]

SickPlant ==
  [t |-> "object", name |-> "Rose", scientificName |-> "Rosa chinensis",
   healthStatus |-> "Sick", riskLevel |-> "High", symptoms |-> <<"Black spots">>,
   causes |-> <<"Fungal infection">>, urgency |-> "High", care |-> care,
   diagnosisSteps |-> <<"Remove infected leaves", "Spray fungicide">>,
   treatmentIngredients |-> <<"Carbendazim", "Mancozeb">>, funFact |-> "Roses are edible"]

\* An object without the required field funFact.
NoFunFactPlant ==
  [t |-> "object", name |-> "Rose", scientificName |-> "Rosa chinensis",
   healthStatus |-> "Sick", riskLevel |-> "High", symptoms |-> <<"Black spots">>,
   causes |-> <<"Fungal infection">>, urgency |-> "High", care |-> care,
   diagnosisSteps |-> <<"Remove infected leaves">>,
   treatmentIngredients |-> <<"Carbendazim">>]

\* An object whose healthStatus is outside the enum.
BadEnumPlant == [HealthyPlant EXCEPT !.healthStatus = "Thriving"]

TextHealthy == "{\"name\":\"Monstera\",\"healthStatus\":\"Healthy\",\"treatmentIngredients\":[],...}"
TextSick == "{\"name\":\"Rose\",\"healthStatus\":\"Sick\",\"treatmentIngredients\":[\"Carbendazim\",\"Mancozeb\"],...}"
TextNoFunFact == "{\"name\":\"Rose\",\"healthStatus\":\"Sick\",...} without funFact"
TextBadEnum == "{\"name\":\"Monstera\",\"healthStatus\":\"Thriving\",...}"
TextNull == "null"
TextTruncated == "{\"name\":\"Mons"
TextEmpty == ""

ResponseTexts ==
  {TextHealthy, TextSick, TextNoFunFact, TextBadEnum, TextNull, TextTruncated, TextEmpty}

NoResponse == [kind |-> "none", text |-> ""]

Responses ==
  { [kind |-> "reject", text |-> ""] } \cup { [kind |-> "text", text |-> x] : x \in ResponseTexts }

\* JSON.parse(text): the parsed value, or a SyntaxError.
JSONParse(text) ==
  CASE text = TextHealthy -> [threw |-> FALSE, value |-> HealthyPlant]
    [] text = TextSick -> [threw |-> FALSE, value |-> SickPlant]
    [] text = TextNoFunFact -> [threw |-> FALSE, value |-> NoFunFactPlant]
    [] text = TextBadEnum -> [threw |-> FALSE, value |-> BadEnumPlant]
    [] text = TextNull -> [threw |-> FALSE, value |-> Null]
    [] OTHER -> [threw |-> TRUE, value |-> Null]

\* Truthiness of a JavaScript value: null is falsy, the empty string is
\* falsy, objects and arrays are truthy.
Truthy(v) ==
  CASE v.t = "null" -> FALSE
    [] v.t = "string" -> v.s # <<>>
    [] OTHER -> TRUE

\* Truthiness of a response text (a native string of the service).
TruthyText(text) == text # ""

\* plantSchema: the required fields and the enums of the response schema.
plantSchemaRequired ==
  {"name", "scientificName", "healthStatus", "riskLevel", "symptoms", "causes",
   "urgency", "care", "diagnosisSteps", "treatmentIngredients", "funFact"}

plantSchema(v) ==
  /\ v.t = "object"
  /\ plantSchemaRequired \subseteq DOMAIN v
  /\ v.healthStatus \in {"Healthy", "Needs Attention", "Sick", "Unknown"}
  /\ v.riskLevel \in {"Low", "Medium", "High"}
  /\ v.urgency \in {"Low", "Medium", "High"}
  /\ {"light", "water", "soil", "temp"} \subseteq DOMAIN v.care

(***************************************************************************)
(* The three views of App's render, as guarded in the JSX.                 *)
(***************************************************************************)
\* A landing guard that also requires that no result is held.
LandingView_noData == ~Truthy(images) /\ ~Truthy(data)

\* {!images && ( ... )}
LandingView == ~Truthy(images)
ProcessingView == Truthy(images) /\ isProcessing

\* The Result guard without its !isProcessing conjunct.
ResultView_ignoresProcessing == Truthy(images) /\ Truthy(data)

ResultView == Truthy(images) /\ Truthy(data) /\ ~isProcessing

\* ViewState Idle: the landing view with nothing in progress.
Idle == images = Null /\ ~isProcessing

(***************************************************************************)
(* The sections of the Result view.                                        *)
(***************************************************************************)
\* The treatment section rendered without its length guard.
TreatmentSection_unguarded == ResultView

\* {data.treatmentIngredients.length > 0 && (<section> ... )}
TreatmentSection == ResultView /\ Len(data.treatmentIngredients) > 0

\* The sections rendered: summary cards, care grid and diagnosis timeline
\* are unconditional inside the Result view.
Sections ==
  IF ResultView
    THEN {"summary", "care", "diagnosis"}
           \cup (IF TreatmentSection THEN {"treatment"} ELSE {})
    ELSE {}

(***************************************************************************)
(* callGemini.                                                             *)
(***************************************************************************)
Prompt(l) == IF l = "zh" THEN "zh: plant pathologist prompt" ELSE "en: plant pathologist prompt"

\* base64Images.map(img => ...): img.split throws a TypeError when img is
\* not a string (reader.result is null after a failed read).
ImagePartsThrows(base64Images) ==
  \E i \in 1..Len(base64Images) : base64Images[i].t # "string"

ImagePart(img) ==
  [mimeType |-> At(Split(At(Split(img.s, ";"), 0), ":"), 1),
   data |-> At(Split(img.s, ","), 1)]

ImageParts(base64Images) == [i \in 1..Len(base64Images) |-> ImagePart(base64Images[i])]

\* The argument of ai.models.generateContent.
Request(base64Images, l) ==
  [model |-> "gemini-2.5-flash",
   imageParts |-> ImageParts(base64Images),
   text |-> Prompt(l),
   responseMimeType |-> "application/json"]

\* What callGemini settles with once generateContent has settled with resp:
\* it rethrows every error, returns the parsed text, or null for a falsy text.
callGemini(resp) ==
  IF resp.kind = "reject" THEN [threw |-> TRUE, value |-> Null]
  ELSE IF TruthyText(resp.text) THEN JSONParse(resp.text)
  ELSE [threw |-> FALSE, value |-> Null]

\* The catch block without setImages(null).
startSimulationAndAnalysis_keepsImages(r, st, errorText) ==
  IF r.threw
    THEN [st EXCEPT !.alerts = Append(@, errorText), !.isProcessing = FALSE]
    ELSE IF Truthy(r.value)
      THEN [st EXCEPT !.data = r.value, !.isProcessing = FALSE]
      ELSE [st EXCEPT !.isProcessing = FALSE]

\* The catch block without alert(t.error).
startSimulationAndAnalysis_silent(r, st, errorText) ==
  IF r.threw
    THEN [st EXCEPT !.images = Null, !.isProcessing = FALSE]
    ELSE IF Truthy(r.value)
      THEN [st EXCEPT !.data = r.value, !.isProcessing = FALSE]
      ELSE [st EXCEPT !.isProcessing = FALSE]

\* The try/catch without its finally block: setIsProcessing(false) only at
\* the end of the try block.
startSimulationAndAnalysis_noFinally(r, st, errorText) ==
  IF r.threw
    THEN [st EXCEPT !.alerts = Append(@, errorText), !.images = Null]
    ELSE IF Truthy(r.value)
      THEN [st EXCEPT !.data = r.value, !.isProcessing = FALSE]
      ELSE [st EXCEPT !.isProcessing = FALSE]

\* setIsProcessing(false) moved from the finally block into the catch block
\* and into `if (result) { ... }`: an empty response leaves isProcessing set.
startSimulationAndAnalysis_processingOnEmpty(r, st, errorText) ==
  IF r.threw
    THEN [st EXCEPT !.alerts = Append(@, errorText), !.images = Null, !.isProcessing = FALSE]
    ELSE IF Truthy(r.value)
      THEN [st EXCEPT !.data = r.value, !.isProcessing = FALSE]
      ELSE st

\* startSimulationAndAnalysis after `await callGemini(...)` has settled with
\* r: the try/catch/finally applied to the React state st; errorText is
\* t.error of the render that created the closure.
startSimulationAndAnalysis(r, st, errorText) ==
  IF r.threw
    THEN [st EXCEPT !.alerts = Append(@, errorText), !.images = Null, !.isProcessing = FALSE]
    ELSE IF Truthy(r.value)
      THEN [st EXCEPT !.data = r.value, !.isProcessing = FALSE]
      ELSE [st EXCEPT !.isProcessing = FALSE]

\* The then-callback run at the first finished read instead of after the join.
JoinReady_any(results) == \E i \in 1..Len(results) : results[i] # Pending

\* Promise.all(promises): fulfilled when every read has called resolve.
JoinReady(results) == \A i \in 1..Len(results) : results[i] # Pending

\* The results collected in the order in which the reads finish.
ResolveRead_completionOrder(results, i, result) ==
  LET k == CHOOSE j \in 1..Len(results) :
             results[j] = Pending /\ \A h \in 1..(j - 1) : results[h] # Pending
  IN [results EXCEPT ![k] = result]

\* Promise.all keeps the value of the i-th promise at index i, whatever the
\* order in which the promises are fulfilled.
ResolveRead(results, i, result) == [results EXCEPT ![i] = result]

State == [images |-> images, data |-> data, isProcessing |-> isProcessing, alerts |-> alerts]

SetState(st) ==
  /\ images' = st.images
  /\ data' = st.data
  /\ isProcessing' = st.isProcessing
  /\ alerts' = st.alerts

(***************************************************************************)
(* Initial state: the useState initial values; nothing submitted.          *)
(***************************************************************************)
Init ==
  /\ lang = "zh"
  /\ isProcessing = FALSE
  /\ images = Null
  /\ data = Null
  /\ pickerOpen = FALSE
  /\ subs = <<>>
  /\ alerts = <<>>
  /\ recording = FALSE
  /\ lastOp = "init"

\* The same initial state, with the history of handlers recorded.
InitOps ==
  /\ lang = "zh"
  /\ isProcessing = FALSE
  /\ images = Null
  /\ data = Null
  /\ pickerOpen = FALSE
  /\ subs = <<>>
  /\ alerts = <<>>
  /\ recording = TRUE
  /\ lastOp = "init"

\* History: the handler that ran in this step.
Record(op) ==
  /\ recording' = recording
  /\ lastOp' = IF recording THEN op ELSE lastOp

(***************************************************************************)
(* Actions.                                                                *)
(***************************************************************************)
\* The upload button of the landing view: fileInputRef.current?.click()
\* opens the file picker.
ClickUpload ==
  /\ LandingView
  /\ ~pickerOpen
  /\ pickerOpen' = TRUE
  /\ Record("ClickUpload")
  /\ UNCHANGED <<lang, isProcessing, images, data, subs, alerts>>

\* The number of file reads started so far: one per file of every submission.
RECURSIVE SumReads(_)
SumReads(n) == IF n = 0 THEN 0 ELSE Len(subs[n].files) + SumReads(n - 1)

TotalReads == SumReads(Len(subs))

\* handleImageUpload with the early return only for a missing file list
\* (`if (!files) return`): an empty list reaches the "Reset state" lines.
handleImageUpload_noLengthCheck(files) ==
  /\ pickerOpen
  /\ pickerOpen' = FALSE
  /\ Record(IF Len(files) = 0 THEN "handleImageUpload:no files" ELSE "handleImageUpload")
  /\ Len(files) > 0 => (Len(subs) < MaxSubmissions /\ TotalReads + Len(files) <= MaxReads)
  /\ data' = Null
  /\ isProcessing' = TRUE
  /\ subs' = IF Len(files) = 0 THEN subs
             ELSE Append(subs,
                 [files |-> files,
                  lang |-> lang,
                  results |-> [i \in 1..Len(files) |-> Pending],
                  phase |-> "reading",
                  invocations |-> 0,
                  requests |-> <<>>,
                  response |-> NoResponse,
                  outcome |-> "none"])
  /\ UNCHANGED <<lang, images, alerts>>

\* onChange of the hidden input with the chosen files (the bounds cap the
\* number of submissions and of reads).
handleImageUpload(files) ==
  /\ pickerOpen
  /\ pickerOpen' = FALSE
  /\ Record(IF Len(files) = 0 THEN "handleImageUpload:no files" ELSE "handleImageUpload")
  /\ IF Len(files) = 0
       THEN UNCHANGED <<lang, isProcessing, images, data, subs, alerts>>
       ELSE /\ Len(subs) < MaxSubmissions
            /\ TotalReads + Len(files) <= MaxReads
            /\ data' = Null
            /\ isProcessing' = TRUE
            /\ subs' = Append(subs,
                 [files |-> files,
                  lang |-> lang,
                  results |-> [i \in 1..Len(files) |-> Pending],
                  phase |-> "reading",
                  invocations |-> 0,
                  requests |-> <<>>,
                  response |-> NoResponse,
                  outcome |-> "none"])
            /\ UNCHANGED <<lang, images, alerts>>

\* reader.onloadend of the i-th file of submission s; ok = FALSE is a failed
\* read (reader.result is null).  When it is the last read of the submission
\* Promise.all is fulfilled and its then-callback runs in the same task:
\* setImages, startSimulationAndAnalysis up to the await of generateContent,
\* or through its catch when callGemini throws before the request is sent.
ReadEnd(s, i, ok) ==
  /\ s \in 1..Len(subs)
  /\ i \in 1..Len(subs[s].files)
  /\ subs[s].results[i] = Pending
  /\ LET sub == subs[s]
         result == IF ok THEN Str(DataURL(sub.files[i])) ELSE Null
         results == ResolveRead(sub.results, i, result)
         joined == [State EXCEPT !.images = Arr(results), !.isProcessing = TRUE]
     IN IF ~JoinReady(results)
          THEN /\ subs' = [subs EXCEPT ![s].results = results]
               /\ UNCHANGED <<images, data, isProcessing, alerts>>
          ELSE IF ImagePartsThrows(results)
            THEN /\ SetState(startSimulationAndAnalysis(
                       [threw |-> TRUE, value |-> Null], joined, translations[sub.lang].error))
                 /\ subs' = [subs EXCEPT ![s].results = results,
                                         ![s].phase = "done",
                                         ![s].invocations = @ + 1,
                                         ![s].outcome = "threw"]
            ELSE /\ SetState(joined)
                 /\ subs' = [subs EXCEPT ![s].results = results,
                                         ![s].phase = "calling",
                                         ![s].invocations = @ + 1,
                                         ![s].requests = Append(@, Request(results, sub.lang))]
  /\ Record("ReadEnd")
  /\ UNCHANGED <<lang, pickerOpen>>

\* generateContent of submission s settles with resp; callGemini and
\* startSimulationAndAnalysis resume.
CallSettles(s, resp) ==
  /\ s \in 1..Len(subs)
  /\ subs[s].phase = "calling"
  /\ LET r == callGemini(resp)
     IN /\ SetState(startSimulationAndAnalysis(r, State, translations[subs[s].lang].error))
        /\ subs' = [subs EXCEPT ![s].phase = "done",
                                ![s].response = resp,
                                ![s].outcome = IF r.threw THEN "threw" ELSE "returned"]
  /\ Record("CallSettles")
  /\ UNCHANGED <<lang, pickerOpen>>

\* reset that also restores the initial language.
reset_restoresLang ==
  /\ ResultView
  /\ images' = Null
  /\ data' = Null
  /\ lang' = "zh"
  /\ Record("reset")
  /\ UNCHANGED <<isProcessing, pickerOpen, subs, alerts>>

\* A back button rendered in every view.
reset_unguarded ==
  /\ images' = Null
  /\ data' = Null
  /\ Record("reset")
  /\ UNCHANGED <<lang, isProcessing, pickerOpen, subs, alerts>>

\* reset without setData(null).
reset_keepsData ==
  /\ ResultView
  /\ images' = Null
  /\ Record("reset")
  /\ UNCHANGED <<lang, isProcessing, data, pickerOpen, subs, alerts>>

\* The back button of the Result view.
reset ==
  /\ ResultView
  /\ images' = Null
  /\ data' = Null
  /\ Record("reset")
  /\ UNCHANGED <<lang, isProcessing, pickerOpen, subs, alerts>>

\* A language toggle that also discards the result.
toggleLanguage_clearsData ==
  /\ LandingView
  /\ lang' = IF lang = "zh" THEN "en" ELSE "zh"
  /\ data' = Null
  /\ Record("toggleLanguage")
  /\ UNCHANGED <<isProcessing, images, pickerOpen, subs, alerts>>

\* The language button in the header of the landing view.
toggleLanguage ==
  /\ LandingView
  /\ lang' = IF lang = "zh" THEN "en" ELSE "zh"
  /\ Record("toggleLanguage")
  /\ UNCHANGED <<isProcessing, images, data, pickerOpen, subs, alerts>>

Next ==
  \/ ClickUpload
  \/ \E files \in Selections : handleImageUpload(files)
  \/ \E s \in 1..MaxSubmissions, i \in 1..MaxReads, ok \in BOOLEAN : ReadEnd(s, i, ok)
  \/ \E s \in 1..MaxSubmissions, resp \in Responses : CallSettles(s, resp)
  \/ reset
  \/ toggleLanguage

Spec == Init /\ [][Next]_vars

\* The same program with the history of handlers recorded in lastOp.
SpecOps == InitOps /\ [][Next]_vars

\* Every file read finishes (onloadend fires) and every generateContent call
\* eventually resolves or rejects.
Fairness ==
  \A s \in 1..MaxSubmissions :
    /\ WF_vars(\E i \in 1..MaxReads, ok \in BOOLEAN : ReadEnd(s, i, ok))
    /\ WF_vars(\E resp \in Responses : CallSettles(s, resp))

SpecFair == Init /\ [][Next]_vars /\ Fairness

(***************************************************************************)
(* Properties.                                                             *)
(***************************************************************************)
Subs == 1..Len(subs)

\* The step in which the generateContent call of submission s settles.
Settles(s) == subs[s].phase = "calling" /\ subs'[s].phase = "done"

Outstanding == { s \in Subs : subs[s].phase = "calling" }

Failed == { s \in Subs : subs[s].outcome = "threw" }

\* C1: handling a failed external call (it rejects, or its text cannot be
\* parsed) leaves images = null and isProcessing = false: the landing view is
\* rendered and the Result view is not, whatever data holds.
C1_FailureLeavesIdle ==
  [][\A s \in Subs :
       (Settles(s) /\ subs'[s].outcome = "threw")
         => (images' = Null /\ ~isProcessing' /\ LandingView' /\ ~ResultView')]_vars

\* A failed call has been handled while data holds an earlier result.
C1_Witness ==
  \E s \in Subs :
    /\ subs[s].outcome = "threw"
    /\ subs[s].response.kind \in {"reject", "text"}
    /\ Idle
    /\ data # Null

\* C2: every call that returns a non-empty, schema-conforming JSON text ends
\* in the Result view with data equal to the parsed text.
C2_ConformingReachesResult ==
  [][\A s \in Subs :
       (/\ Settles(s)
        /\ subs'[s].response.kind = "text"
        /\ TruthyText(subs'[s].response.text)
        /\ ~JSONParse(subs'[s].response.text).threw
        /\ plantSchema(JSONParse(subs'[s].response.text).value))
         => (ResultView' /\ data' = JSONParse(subs'[s].response.text).value)]_vars

\* C3: at most one external analysis call is outstanding.
C3_AtMostOneOutstanding == Cardinality(Outstanding) <= 1

\* C4: no two of the landing, Processing and Result views are rendered
\* together.
C4_ViewsExclusive ==
  /\ ~(LandingView /\ ProcessingView)
  /\ ~(LandingView /\ ResultView)
  /\ ~(ProcessingView /\ ResultView)

\* Images and a result are held while a later submission is being analysed:
\* only the Processing view is rendered.
C4_Witness == Truthy(images) /\ Truthy(data) /\ isProcessing /\ ProcessingView

\* C5: at least one of the three views is rendered.
C5_SomeViewRendered == LandingView \/ ProcessingView \/ ResultView

\* C6: a call that resolves with an empty text is handled like a failed call:
\* one notification, images = null, back to Idle.
C6_EmptyHandledAsFailure ==
  [][\A s \in Subs :
       (/\ Settles(s)
        /\ subs'[s].response.kind = "text"
        /\ ~TruthyText(subs'[s].response.text))
         => (Len(alerts') = Len(alerts) + 1 /\ images' = Null /\ Idle')]_vars

\* C7: a response that is valid JSON but does not conform to plantSchema is
\* treated as a failed call: data is not set from it and the Result view is
\* not rendered for it.
C7_NonConformingRejected ==
  [][\A s \in Subs :
       (/\ Settles(s)
        /\ subs'[s].response.kind = "text"
        /\ TruthyText(subs'[s].response.text)
        /\ ~JSONParse(subs'[s].response.text).threw
        /\ ~plantSchema(JSONParse(subs'[s].response.text).value))
         => (data' = data /\ ~ResultView' /\ images' = Null)]_vars

\* C8: the number of error notifications equals the number of analysis calls
\* that failed (callGemini threw); nothing else raises one.
C8_OneAlertPerFailure == Len(alerts) = Cardinality(Failed)

\* One call failed and one succeeded: one notification.
C8_Witness ==
  /\ Len(alerts) = 1
  /\ \E s \in Subs : subs[s].outcome = "threw"
  /\ \E s \in Subs : subs[s].outcome = "returned" /\ subs[s].response.text = TextSick

\* C9: a non-empty selection made in Idle makes the Processing view the
\* active view in the submit step itself.
C9_SubmitShowsProcessing ==
  [][(Idle /\ Len(subs') = Len(subs) + 1) => ProcessingView']_vars

Submits == \E files \in Selections : Len(files) > 0 /\ handleImageUpload(files)

\* A submission whose reads or whose call have not finished.
InProgress == { s \in Subs : subs[s].phase # "done" }

\* C11: a submission made while an earlier one is still in progress is
\* rejected as a no-op: images, data, isProcessing unchanged, no read started
\* and no further call issued.
C11_SecondSubmitRejected ==
  [][(isProcessing /\ InProgress # {} /\ Submits)
       => UNCHANGED <<images, data, isProcessing, subs>>]_vars

\* C12: reset() in the Result view yields Idle with images = null and
\* data = null, and leaves lang and isProcessing unchanged.
C12_ResetYieldsIdle ==
  [][reset => (/\ images' = Null
               /\ data' = Null
               /\ Idle'
               /\ LandingView'
               /\ lang' = lang
               /\ isProcessing' = isProcessing)]_vars

\* The only submission succeeded and its result was discarded by reset, with
\* the language toggled before.
C12_Witness ==
  /\ Len(subs) = 1
  /\ subs[1].outcome = "returned"
  /\ subs[1].response.text = TextSick
  /\ Idle
  /\ data = Null
  /\ lang = "en"

\* C13: a change event without a file is a no-op: images, data, isProcessing
\* and lang are unchanged, no read is started, no call is issued, and a
\* controller in Idle stays in Idle.
C13_NoFileIsNoOp ==
  [][handleImageUpload(<<>>)
       => (/\ UNCHANGED <<images, data, isProcessing, lang, subs, alerts>>
           /\ Idle => Idle')]_vars

\* The last handler that ran was the change event without a file, in Idle,
\* after an earlier submission had run to its end.
C13_Witness ==
  /\ lastOp = "handleImageUpload:no files"
  /\ Idle
  /\ \E s \in Subs : subs[s].outcome = "returned"

\* C14: toggleLanguage() never alters the ViewState: images, data,
\* isProcessing and the pending reads and calls are the same after the toggle,
\* so the same view is rendered.
C14_ToggleKeepsViewState ==
  [][toggleLanguage
       => (/\ UNCHANGED <<images, data, isProcessing, subs, pickerOpen, alerts>>
           /\ LandingView' = LandingView
           /\ ProcessingView' = ProcessingView
           /\ ResultView' = ResultView)]_vars

\* The language was toggled while a submission made in zh is being read.
C14_Witness ==
  /\ lang = "en"
  /\ isProcessing
  /\ \E s \in Subs : subs[s].phase = "reading" /\ subs[s].lang = "zh"

\* C15: the analysis flow never changes Language: a submission, the end of a
\* read, the end of a call and reset() leave lang unchanged; only the toggle
\* changes it, between zh and en.
C15_OnlyToggleChangesLang ==
  [][/\ (Submits \/ handleImageUpload(<<>>) \/ reset \/ ClickUpload
          \/ (\E s \in Subs : subs'[s] # subs[s])) => lang' = lang
     /\ lang' # lang => (toggleLanguage /\ {lang, lang'} = Lang)
     /\ lang' \in Lang]_vars

\* With the language toggled to en, a submission was read, analysed and reset.
C15_Witness ==
  /\ lang = "en"
  /\ Len(subs) = 1
  /\ subs[1].lang = "en"
  /\ subs[1].outcome = "returned"
  /\ subs[1].response.text = TextHealthy
  /\ images = Null
  /\ data = Null

\* C16: toggleLanguage() is valid from any state: it can be invoked in Idle,
\* in Processing and in Result.
C16_ToggleValidEverywhere == ENABLED toggleLanguage

\* The encodings of the files of submission s, in the order of selection.
Encoded(s) == [i \in 1..Len(subs[s].files) |-> Str(DataURL(subs[s].files[i]))]

\* C17: for a submission of N files whose reads finish in any order, the
\* images stored and the image parts passed to the call have length N, the
\* i-th being the encoding of the i-th selected file, and the call is issued
\* only after all N reads have finished.
C17_ImagesInFileOrder ==
  /\ \A s \in Subs :
       subs[s].requests # <<>> =>
         /\ \A i \in 1..Len(subs[s].files) : subs[s].results[i] # Pending
         /\ Len(subs[s].requests[1].imageParts) = Len(subs[s].files)
         /\ \A i \in 1..Len(subs[s].files) :
              subs[s].requests[1].imageParts[i] =
                [mimeType |-> <<subs[s].files[i].type>>, data |-> <<subs[s].files[i].content>>]
  /\ images # Null =>
       \E s \in Subs : subs[s].requests # <<>> /\ images = Arr(Encoded(s))
  /\ \A s \in Subs : \A i \in 1..Len(subs[s].files) :
       subs[s].results[i] \in {Pending, Null, Str(DataURL(subs[s].files[i]))}

\* The call of a submission of three files is outstanding and images holds
\* their three encodings in the order of selection.
C17_Witness ==
  \E s \in Subs :
    /\ Len(subs[s].files) = 3
    /\ subs[s].phase = "calling"
    /\ images = Arr(Encoded(s))
    /\ Len(images.items) = 3

\* The step in which the analysis call of submission s comes to its end
\* (success, failure or empty response).
Completes(s) == subs[s].outcome = "none" /\ subs'[s].outcome # "none"

\* C18: while the Processing view is shown neither reset nor a new submission
\* happens, and the only step that leaves the Processing view is the
\* completion of an analysis call.
C18_NoCancellation ==
  [][ProcessingView
       => (/\ ~reset
           /\ ~Submits
           /\ ~ProcessingView' => \E s \in Subs : Completes(s))]_vars

\* C19: reset() is invoked only from the Result view, never in Idle or in
\* Processing, so it never discards images and data while the Processing view
\* is shown.
C19_ResetOnlyFromResult ==
  [][reset => (ResultView /\ ~LandingView /\ ~ProcessingView)]_vars

\* reset has run from the Result view while the call of a later submission
\* was still outstanding.
C19_Witness ==
  /\ Len(subs) = 2
  /\ subs[1].outcome = "returned"
  /\ subs[1].response.text = TextHealthy
  /\ subs[2].phase = "calling"
  /\ images = Null
  /\ data = Null
  /\ alerts = <<>>

\* C20: in the Result view the treatment section is rendered if and only if
\* data.treatmentIngredients is non-empty; with an empty list every other
\* section is still rendered.
C20_TreatmentIffIngredients ==
  ResultView =>
    /\ ("treatment" \in Sections) <=> (data.treatmentIngredients # <<>>)
    /\ {"summary", "care", "diagnosis"} \subseteq Sections

\* The Result view of a healthy plant: no ingredient, no treatment section.
C20_Witness ==
  /\ ResultView
  /\ data = HealthyPlant
  /\ data.treatmentIngredients = <<>>
  /\ Sections = {"summary", "care", "diagnosis"}

\* C21: whenever the Result view is shown, images and data belong to the same
\* submission.  The Result view is entered only by the step in which a call
\* settles, so: when the call of submission s settles into the Result view,
\* images holds the encodings of the files of s and data is the parsed
\* response of s.
C21_ResultOfDisplayedImages ==
  [][\A s \in Subs :
       (Settles(s) /\ ResultView')
         => (/\ images' = Arr(Encoded(s))
             /\ data' = callGemini(subs'[s].response).value)]_vars

\* C22: whenever an external analysis call is outstanding, isProcessing is
\* true.
C22_OutstandingImpliesProcessing == Outstanding # {} => isProcessing

\* C23: whenever images is null, data is null.
C23_IdleRetainsNoResult == images = Null => data = Null

\* The step in which the last read of submission s finishes and the
\* then-callback of Promise.all runs.
Joins(s) == subs[s].invocations = 0 /\ subs'[s].invocations = 1

\* C24: once the landing view is shown it stays shown until the file reads of
\* a submission complete: the completion of a call that was still outstanding
\* (success, failure or empty response) never moves the UI to the Result view
\* or to the Processing view.
C24_LandingStaysUntilJoin ==
  [][LandingView
       => (/\ (\E s \in Subs : Settles(s))
                => (LandingView' /\ ~ResultView' /\ ~ProcessingView')
           /\ ~LandingView' => \E s \in Subs : Joins(s))]_vars

\* After reset() the call that was still outstanding returned a result: data
\* holds it and the landing view is still the one rendered.
C24_Witness ==
  /\ Len(subs) = 2
  /\ subs[1].outcome = "returned"
  /\ subs[1].response.text = TextHealthy
  /\ subs[2].outcome = "returned"
  /\ subs[2].response.text = TextSick
  /\ alerts = <<>>
  /\ images = Null
  /\ data = SickPlant
  /\ LandingView

\* C25: the error notification of a failed call is in the language that is
\* current when the failure is handled, also when the language was toggled
\* after the files were selected.
C25_AlertInCurrentLanguage ==
  [][\A s \in Subs :
       (Completes(s) /\ subs'[s].outcome = "threw")
         => alerts' = Append(alerts, translations[lang].error)]_vars

\* A read of submission s finished with a null result.
ReadFailed(s) == \E i \in 1..Len(subs[s].results) : subs[s].results[i] = Null

\* C26: a file whose read fails does not hang the submission: the read join
\* still completes (always: once every read has finished the submission is
\* done without a request) and, in the step of the join, the
\* submission ends on the failure path with exactly one error notification,
\* images = null and isProcessing = false.
C26_FailedReadEndsInFailure ==
  /\ [](\A s \in Subs :
         (ReadFailed(s) /\ JoinReady(subs[s].results))
           => (/\ subs[s].phase = "done"
               /\ subs[s].outcome = "threw"
               /\ subs[s].invocations = 1
               /\ subs[s].requests = <<>>
               /\ subs[s].response = NoResponse))
  /\ [][\A s \in Subs :
          (Joins(s) /\ ReadFailed(s)')
            => (/\ Completes(s)
                /\ Len(alerts') = Len(alerts) + 1
                /\ images' = Null
                /\ ~isProcessing')]_vars

\* A submission of two files, the first of which could not be read, has
\* ended with one notification while the second read succeeded.
C26_Witness ==
  /\ Len(subs) = 1
  /\ Len(subs[1].files) = 2
  /\ subs[1].results[1] = Null
  /\ subs[1].results[2] = Str(DataURL(File(2)))
  /\ subs[1].outcome = "threw"
  /\ subs[1].requests = <<>>
  /\ Len(alerts) = 1
  /\ images = Null
  /\ ~isProcessing

\* C27: if every file read finishes and every external call eventually
\* resolves or rejects, every non-empty submission is eventually followed by
\* a state with isProcessing = false and no outstanding call of that
\* submission.
C27_SubmissionEventuallyEnds ==
  \A s \in 1..MaxSubmissions :
    (Len(subs) >= s) ~> (Len(subs) >= s /\ subs[s].phase = "done" /\ ~isProcessing)

\* Two overlapping submissions have both come to their end, the second with an
\* empty response, and isProcessing is false.
C27_Witness ==
  /\ Len(subs) = 2
  /\ subs[1].phase = "done"
  /\ subs[1].outcome = "threw"
  /\ subs[2].phase = "done"
  /\ subs[2].response.text = TextEmpty
  /\ subs[2].response.kind = "text"
  /\ ~isProcessing

====
